---- MODULE Spec2Model ----
(***************************************************************************)
(* Model of src/main.go: the error-handling demonstration driver.          *)
(*                                                                         *)
(* Error values are addresses into a heap of error objects, so that the    *)
(* identity of an error (Go's ==  on interface values holding pointers)    *)
(* is distinct from its rendered text.  Text is a sequence of words.       *)
(***************************************************************************)
EXTENDS Integers, Sequences, FiniteSets

\* ------------------------------------------------------------------ bounds
\* largest size, in bytes, of the file nonexistent.txt in the environment
MaxFileSize == 4
\* largest buffer handed to readFullBuffer
MaxBufLen == 3

\* ------------------------------------------------------- program constants
\* make([]byte, 100) in customOperation
DataLen == 100

\* the nil error
Nil == 0

\* package-level error values, created once at process start, in heap order
ErrInvalidInput == 1
ErrTimeout == 2
EOF == 3
ErrNoRows == 4
\* syscall.Errno values the file system can hand to os.Open / File.Read
ENOENT == 5
EACCES == 6
EISDIR == 7
EIO == 8

Min(a, b) == IF a < b THEN a ELSE b

Range(s) == {s[i] : i \in 1..Len(s)}

\* ------------------------------------------------------------ error heap
\* One shape for every error object: its dynamic type, the words it stores
\* and the errors it refers to.
Obj(type, text, errs) == [type |-> type, text |-> text, errs |-> errs]

\* errors.New(text)
errorString(text) == Obj("*errors.errorString", text, <<>>)

Errno(text) == Obj("syscall.Errno", text, <<>>)

\* &NotFoundError{Item: item}
NotFoundError(item) == Obj("*main.NotFoundError", <<item>>, <<>>)

\* &fs.PathError{Op: op, Path: path, Err: e}; it renders as "op path: e"
PathError(op, path, e) == Obj("*fs.PathError", <<op, path>>, <<e>>)

\* the fixed path customOperation opens, as it appears in a rendered message
Path == "nonexistent.txt:"

\* the heap after package initialisation
PackageHeap ==
    << errorString(<<"invalid", "input">>),
       errorString(<<"operation", "timed", "out">>),
       errorString(<<"EOF">>),
       errorString(<<"sql:", "no", "rows", "in", "result", "set">>),
       Errno(<<"no", "such", "file", "or", "directory">>),
       Errno(<<"permission", "denied">>),
       Errno(<<"is", "a", "directory">>),
       Errno(<<"input/output", "error">>) >>

\* allocation returns the grown heap; the new address is its length
Alloc(h, obj) == Append(h, obj)

\* err.Error(): the rendered message of a non-nil error
RECURSIVE Error(_, _)
Error(h, e) ==
    LET o == h[e] IN
    IF o.type = "*main.NotFoundError"
    THEN o.text \o <<"not", "found">>
    ELSE IF o.type = "*fs.PathError"
    THEN o.text \o Error(h, o.errs[1])
    ELSE o.text

\* strings.Contains on word sequences
Contains(s, sub) ==
    \E i \in 0..(Len(s) - Len(sub)) : SubSeq(s, i + 1, i + Len(sub)) = sub

\* ------------------------------------------------------------ fmt.Errorf
Verbs == {"%w", "%v", "%s"}

\* the formatted text: each verb consumes the next operand
RECURSIVE Format(_, _, _)
Format(h, f, args) ==
    IF f = <<>> THEN <<>>
    ELSE IF Head(f) \in Verbs
    THEN IF args = <<>>
         THEN <<"%!v(MISSING)">> \o Format(h, Tail(f), args)
         ELSE (IF Head(args) = Nil THEN <<"<nil>">> ELSE Error(h, Head(args)))
              \o Format(h, Tail(f), Tail(args))
    ELSE <<Head(f)>> \o Format(h, Tail(f), args)

\* the operands of the %w verbs, in operand order
RECURSIVE WrappedOperands(_, _)
WrappedOperands(f, args) ==
    IF f = <<>> \/ args = <<>> THEN <<>>
    ELSE IF Head(f) \in Verbs
    THEN (IF Head(f) = "%w" /\ Head(args) # Nil THEN <<Head(args)>> ELSE <<>>)
         \o WrappedOperands(Tail(f), Tail(args))
    ELSE WrappedOperands(Tail(f), args)

\* a plausible slip: only the first %w operand is kept as a cause
Errorf_firstOnly(h, f, args) ==
    LET s == Format(h, f, args)
        w == WrappedOperands(f, args)
    IN  IF Len(w) = 0 THEN errorString(s)
        ELSE Obj("*fmt.wrapError", s, <<w[1]>>)

\* fmt.Errorf(f, args...): the error object it builds
Errorf(h, f, args) ==
    LET s == Format(h, f, args)
        w == WrappedOperands(f, args)
    IN  IF Len(w) = 0 THEN errorString(s)
        ELSE IF Len(w) = 1 THEN Obj("*fmt.wrapError", s, w)
        ELSE Obj("*fmt.wrapErrors", s, w)

\* ------------------------------------------------- errors.Is / errors.As
\* types with an   Unwrap() error   method
UnwrapsOne(o) == o.type \in {"*fmt.wrapError", "*fs.PathError"}
\* types with an   Unwrap() []error   method
UnwrapsMany(o) == o.type = "*fmt.wrapErrors"

\* the errors visited by the traversal of errors.Is / errors.As, in the
\* order they are visited (depth first, causes left to right)
RECURSIVE Chain(_, _)
RECURSIVE ChainAll(_, _)
Chain(h, e) ==
    IF e = Nil THEN <<>>
    ELSE IF UnwrapsOne(h[e]) THEN <<e>> \o Chain(h, h[e].errs[1])
    ELSE IF UnwrapsMany(h[e]) THEN <<e>> \o ChainAll(h, h[e].errs)
    ELSE <<e>>
ChainAll(h, es) ==
    IF es = <<>> THEN <<>> ELSE Chain(h, Head(es)) \o ChainAll(h, Tail(es))

\* errors.Is(e, target)
RECURSIVE is(_, _, _)
is(h, e, target) ==
    IF e = target THEN TRUE
    ELSE IF UnwrapsOne(h[e])
    THEN LET u == h[e].errs[1] IN IF u = Nil THEN FALSE ELSE is(h, u, target)
    ELSE IF UnwrapsMany(h[e])
    THEN \E i \in 1..Len(h[e].errs) :
            h[e].errs[i] # Nil /\ is(h, h[e].errs[i], target)
    ELSE FALSE

Is(h, e, target) ==
    IF e = Nil \/ target = Nil THEN e = target ELSE is(h, e, target)

\* errors.As(e, &target) for a target of dynamic type ty: the first error of
\* the traversal that has that type, or Nil when there is none
As(h, e, ty) ==
    LET c == Chain(h, e)
        hits == {i \in 1..Len(c) : h[c[i]].type = ty}
    IN  IF hits = {} THEN Nil
        ELSE c[CHOOSE i \in hits : \A j \in hits : i <= j]

\* the type assertion  e.(T): the error itself when its dynamic type is ty
TypeAssert(h, e, ty) == IF e # Nil /\ h[e].type = ty THEN e ELSE Nil

\* ------------------------------------------------------- error producers
\* a call that may allocate returns the grown heap and the returned error
Ret(h, e) == [heap |-> h, ret |-> e]
New(h, obj) == Ret(Alloc(h, obj), Len(h) + 1)

fetchData == ErrInvalidInput

\* a plausible slip: the cause is formatted with %v and so not wrapped
processData_v(h) ==
    LET e == fetchData IN
    IF e # Nil
    THEN New(h, Errorf(h, <<"failed", "to", "process", "data:", "%v">>, <<e>>))
    ELSE Ret(h, Nil)

\* a plausible slip: the cause is handed on bare
processData_bare(h) == Ret(h, fetchData)

processData(h) ==
    LET e == fetchData IN
    IF e # Nil
    THEN New(h, Errorf(h, <<"failed", "to", "process", "data:", "%w">>, <<e>>))
    ELSE Ret(h, Nil)

\* a plausible slip: the payload is not the argument
findItem_fixed(h, item) == New(h, NotFoundError("item"))

findItem(h, item) == New(h, NotFoundError(item))

\* a plausible slip: the signal is wrapped on the way out
openDbErr_wrapped(h) ==
    New(h, Errorf(h, <<"open", "db:", "%w">>, <<ErrNoRows>>))

openDbErr(h) == Ret(h, ErrNoRows)

\* a byte source: the bytes it still holds and the error its next Read
\* returns; Read hands out at most len(buf) bytes
Read(r, bufLen) == [n |-> Min(r.avail, bufLen), err |-> r.err]

\* a plausible slip: the end-of-stream signal is handed on
readFullBuffer_raw(r, bufLen) ==
    LET rd == Read(r, bufLen) IN
    [n |-> rd.n, err |-> rd.err, reads |-> 1]

readFullBuffer(r, bufLen) ==
    LET rd == Read(r, bufLen) IN
    IF rd.err = EOF
    THEN [n |-> rd.n, err |-> Nil, reads |-> 1]
    ELSE [n |-> rd.n, err |-> rd.err, reads |-> 1]

\* ------------------------------------------------------------------ state
VARIABLES
    pc,                 \* position of the process in main / customOperation
    heap,               \* the error objects allocated so far
    err,                \* main's err
    notFoundErr, ok,    \* Demo 2: result of the type assertion
    notFound,           \* Demo 2: target filled in by errors.As
    inputErr, wrappedErr, properlyWrappedErr,   \* Demo 5
    err1, err2, combinedErr,                    \* Demo 6
    stdout,             \* the lines printed so far
    demos,              \* the numbered demonstrations that have run
    fsKind, fsSize,     \* what the path nonexistent.txt names, and its size
    openFiles,          \* file handles open in the process
    coErr,              \* customOperation's err
    coRet,              \* customOperation's return value
    exitStatus,         \* -1 while the process runs
    in, out             \* a single call of a helper: its inputs, its results

mainVars == <<err, notFoundErr, ok, notFound, inputErr, wrappedErr,
              properlyWrappedErr, err1, err2, combinedErr>>
coVars == <<openFiles, coErr, coRet>>
envVars == <<fsKind, fsSize>>
fnVars == <<in, out>>
vars == <<pc, heap, mainVars, stdout, demos, envVars, coVars, exitStatus,
          fnVars>>

\* what the environment may hold at the path, with the sizes a file may have
FsKinds == {"absent", "noperm", "dir", "file"}
FsSizes(k) == IF k = "file" THEN 0..MaxFileSize ELSE {0}

\* the process at the start of main, package-level values initialised
Init ==
    /\ pc = "demo1"
    /\ heap = PackageHeap
    /\ err = Nil /\ notFoundErr = Nil /\ ok = FALSE /\ notFound = Nil
    /\ inputErr = Nil /\ wrappedErr = Nil /\ properlyWrappedErr = Nil
    /\ err1 = Nil /\ err2 = Nil /\ combinedErr = Nil
    /\ stdout = <<>>
    /\ demos = <<>>
    /\ fsKind \in FsKinds
    /\ fsSize \in FsSizes(fsKind)
    /\ openFiles = 0 /\ coErr = Nil /\ coRet = Nil
    /\ exitStatus = -1
    /\ in = [fn |-> "none", item |-> "", avail |-> 0, err |-> 0, bufLen |-> 0]
    /\ out = [fn |-> "none", ret |-> 0, n |-> 0, reads |-> 0]

\* fmt.Println of the given lines, in order
Println(lines) == stdout' = stdout \o lines

\* ------------------------------------------------------------------- main
\* Demo 1: error comparisons with ==
Demo1 ==
    /\ pc = "demo1"
    /\ LET e == fetchData IN
       /\ err' = e
       /\ Println((IF e = ErrInvalidInput
                 THEN << <<"Invalid", "input", "detected">> >> ELSE <<>>)
                \o
                (IF Is(heap, e, ErrInvalidInput)
                 THEN << <<"Invalid", "input", "detected",
                           "(correctly", "checked)">> >>
                 ELSE <<>>))
    /\ demos' = Append(demos, 1)
    /\ pc' = "demo2"
    /\ UNCHANGED <<heap, notFoundErr, ok, notFound, inputErr, wrappedErr,
                   properlyWrappedErr, err1, err2, combinedErr, envVars,
                   coVars, exitStatus, fnVars>>

\* Demo 2: error type assertions
Demo2 ==
    /\ pc = "demo2"
    /\ LET r == findItem(heap, "document")
           a == TypeAssert(r.heap, r.ret, "*main.NotFoundError")
           t == As(r.heap, r.ret, "*main.NotFoundError")
       IN
       /\ heap' = r.heap
       /\ err' = r.ret
       /\ notFoundErr' = a
       /\ ok' = (a # Nil)
       /\ notFound' = t
       /\ Println((IF a # Nil
                 THEN << <<"Not", "found", "error:">> \o r.heap[a].text >>
                 ELSE <<>>)
                \o
                (IF t # Nil
                 THEN << <<"Not", "found", "error", "(correctly",
                           "checked):">> \o r.heap[t].text >>
                 ELSE <<>>))
    /\ demos' = Append(demos, 2)
    /\ pc' = "demo3"
    /\ UNCHANGED <<inputErr, wrappedErr, properlyWrappedErr, err1, err2,
                   combinedErr, envVars, coVars, exitStatus, fnVars>>

\* Demo 3: switch on error value
Demo3 ==
    /\ pc = "demo3"
    /\ LET r == processData(heap) IN
       /\ heap' = r.heap
       /\ err' = r.ret
       /\ Println(<< IF r.ret = ErrInvalidInput THEN <<"Invalid", "input">>
                   ELSE IF r.ret = ErrTimeout THEN <<"Timeout">>
                   ELSE <<"Unknown", "error">> >>)
    /\ demos' = Append(demos, 3)
    /\ pc' = "demo4"
    /\ UNCHANGED <<notFoundErr, ok, notFound, inputErr, wrappedErr,
                   properlyWrappedErr, err1, err2, combinedErr, envVars,
                   coVars, exitStatus, fnVars>>

\* Demo 4: switch on error type
Demo4 ==
    /\ pc = "demo4"
    /\ LET e == TypeAssert(heap, err, "*main.NotFoundError") IN
       Println(<< IF e # Nil THEN <<"Not", "found:">> \o heap[e].text
                ELSE <<"Other", "error", "type">> >>)
    /\ demos' = Append(demos, 4)
    /\ pc' = "demo5"
    /\ UNCHANGED <<heap, mainVars, envVars, coVars, exitStatus, fnVars>>

\* Demo 5: fmt.Errorf without %w
Demo5 ==
    /\ pc = "demo5"
    /\ LET h1 == Alloc(heap, errorString(<<"input", "validation", "failed">>))
           i == Len(h1)
           h2 == Alloc(h1, Errorf(h1, <<"operation", "failed:", "%w">>, <<i>>))
           w == Len(h2)
           h3 == Alloc(h2, Errorf(h2, <<"operation", "failed:", "%w">>, <<i>>))
           p == Len(h3)
       IN
       /\ heap' = h3
       /\ inputErr' = i
       /\ wrappedErr' = w
       /\ properlyWrappedErr' = p
       /\ Println(<< Error(h3, w), Error(h3, p) >>)
    /\ demos' = Append(demos, 5)
    /\ pc' = "demo6"
    /\ UNCHANGED <<err, notFoundErr, ok, notFound, err1, err2, combinedErr,
                   envVars, coVars, exitStatus, fnVars>>

\* Demo 6: multiple errors in fmt.Errorf
Demo6 ==
    /\ pc = "demo6"
    /\ LET h1 == Alloc(heap, errorString(<<"first", "error">>))
           a == Len(h1)
           h2 == Alloc(h1, errorString(<<"second", "error">>))
           b == Len(h2)
           h3 == Alloc(h2, Errorf(h2, <<"multiple", "errors:", "%w", "and",
                                        "%w">>, <<a, b>>))
           c == Len(h3)
       IN
       /\ heap' = h3
       /\ err1' = a
       /\ err2' = b
       /\ combinedErr' = c
       /\ Println(<< Error(h3, c) >>)
    /\ demos' = Append(demos, 6)
    /\ pc' = "demo7"
    /\ UNCHANGED <<err, notFoundErr, ok, notFound, inputErr, wrappedErr,
                   properlyWrappedErr, envVars, coVars, exitStatus, fnVars>>

\* Demo 7: special case with sql.ErrNoRows
Demo7 ==
    /\ pc = "demo7"
    /\ LET r == openDbErr(heap) IN
       /\ heap' = r.heap
       /\ Println(IF r.ret = ErrNoRows
                THEN << <<"No", "rows", "found">> >> ELSE <<>>)
    /\ demos' = Append(demos, 7)
    /\ pc' = "demo8"
    /\ UNCHANGED <<mainVars, envVars, coVars, exitStatus, fnVars>>

\* Demo 8: the call of customOperation
Demo8Call ==
    /\ pc = "demo8"
    /\ pc' = "co_open"
    /\ UNCHANGED <<heap, mainVars, stdout, demos, envVars, coVars, exitStatus,
                   fnVars>>

\* ------------------------------------------------------- customOperation
\* os.Open("nonexistent.txt"): the error it returns, Nil when it succeeds
OpenErrno(k) ==
    IF k = "absent" THEN ENOENT ELSE IF k = "noperm" THEN EACCES ELSE Nil

\* a plausible slip: the handle is not closed on exit
Deferred_none(n) == n

\* defer file.Close(): runs when customOperation exits, also by a panic
Deferred(n) == n - 1

\* file, err := os.Open(...); if err != nil { return fmt.Errorf(...) }
CoOpen ==
    /\ pc = "co_open"
    /\ IF OpenErrno(fsKind) # Nil
       THEN LET h1 == Alloc(heap, PathError("open", Path, OpenErrno(fsKind)))
                r == New(h1, Errorf(h1, <<"could", "not", "open", "file:",
                                          "%w">>, <<Len(h1)>>))
            IN  /\ heap' = r.heap
                /\ coErr' = Len(h1)
                /\ coRet' = r.ret
                /\ pc' = "demo8_ret"
                /\ UNCHANGED openFiles
       ELSE /\ openFiles' = openFiles + 1
            /\ coErr' = Nil
            /\ pc' = "co_read"
            /\ UNCHANGED <<heap, coRet>>
    /\ UNCHANGED <<mainVars, stdout, demos, envVars, exitStatus, fnVars>>

\* _, err = file.Read(data); if err != nil && err != io.EOF { return ... }
CoRead ==
    /\ pc = "co_read"
    /\ \E ioFail \in BOOLEAN :
       LET errno == IF fsKind = "dir" THEN EISDIR
                    ELSE IF ioFail THEN EIO ELSE Nil
           n == IF errno # Nil THEN 0 ELSE Min(fsSize, DataLen)
           h1 == IF errno # Nil
                 THEN Alloc(heap, PathError("read", Path, errno)) ELSE heap
           e == IF errno # Nil THEN Len(h1)
                ELSE IF n = 0 THEN EOF ELSE Nil
       IN
       /\ coErr' = e
       /\ IF e # Nil /\ e # EOF
          THEN LET r == New(h1, Errorf(h1, <<"could", "not", "read", "file:",
                                             "%w">>, <<e>>))
               IN  /\ heap' = r.heap
                   /\ coRet' = r.ret
                   /\ openFiles' = Deferred(openFiles)
                   /\ pc' = "demo8_ret"
          ELSE /\ heap' = h1
               /\ pc' = "co_check"
               /\ UNCHANGED <<coRet, openFiles>>
    /\ UNCHANGED <<mainVars, stdout, demos, envVars, exitStatus, fnVars>>

\* if strings.Contains(err.Error(), "permission denied") { return ... }
\* return nil
\* err.Error() on a nil err is a nil dereference: the goroutine panics, the
\* deferred Close runs and the process exits with status 2
CoCheck ==
    /\ pc = "co_check"
    /\ openFiles' = Deferred(openFiles)
    /\ IF coErr = Nil
       THEN /\ pc' = "crashed"
            /\ exitStatus' = 2
            /\ UNCHANGED <<heap, coRet>>
       ELSE /\ IF Contains(Error(heap, coErr), <<"permission", "denied">>)
               THEN LET r == New(heap, Errorf(heap, <<"permission", "issue:",
                                                     "%w">>, <<coErr>>))
                    IN  heap' = r.heap /\ coRet' = r.ret
               ELSE /\ coRet' = Nil
                    /\ UNCHANGED heap
            /\ pc' = "demo8_ret"
            /\ UNCHANGED exitStatus
    /\ UNCHANGED <<mainVars, stdout, demos, envVars, coErr, fnVars>>

\* if err := customOperation(); err != nil { fmt.Println(...) }
Demo8Return ==
    /\ pc = "demo8_ret"
    /\ Println(IF coRet # Nil
               THEN << <<"Custom", "operation", "failed:">>
                       \o Error(heap, coRet) >>
               ELSE <<>>)
    /\ demos' = Append(demos, 8)
    /\ pc' = "exit"
    /\ UNCHANGED <<heap, mainVars, envVars, coVars, exitStatus, fnVars>>

\* main returns: the process exits with status 0
MainReturn ==
    /\ pc = "exit"
    /\ exitStatus' = 0
    /\ pc' = "done"
    /\ UNCHANGED <<heap, mainVars, stdout, demos, envVars, coVars, fnVars>>

Next ==
    \/ Demo1 \/ Demo2 \/ Demo3 \/ Demo4 \/ Demo5 \/ Demo6 \/ Demo7
    \/ Demo8Call \/ CoOpen \/ CoRead \/ CoCheck \/ Demo8Return
    \/ MainReturn

Spec == Init /\ [][Next]_vars

\* --------------------------------------------- the helpers, called alone
\* findItem and readFullBuffer applied once to inputs from bounded sets
Items == {"document", "report", "invoice"}

Call(fn, item, avail, rerr, bufLen) ==
    [fn |-> fn, item |-> item, avail |-> avail, err |-> rerr,
     bufLen |-> bufLen]
Result(fn, ret, n, reads) == [fn |-> fn, ret |-> ret, n |-> n, reads |-> reads]

\* an error that wraps the end-of-stream signal, at the address after the
\* package-level values
WrappedEOF == Len(PackageHeap) + 1

\* the errors a source's Read may return
ReadErrs == {Nil, EOF, ErrTimeout, EIO, WrappedEOF}

InitFn ==
    /\ pc = "lib"
    /\ heap = Alloc(PackageHeap,
                    Errorf(PackageHeap, <<"read:", "%w">>, <<EOF>>))
    /\ err = Nil /\ notFoundErr = Nil /\ ok = FALSE /\ notFound = Nil
    /\ inputErr = Nil /\ wrappedErr = Nil /\ properlyWrappedErr = Nil
    /\ err1 = Nil /\ err2 = Nil /\ combinedErr = Nil
    /\ stdout = <<>>
    /\ demos = <<>>
    /\ fsKind = "absent" /\ fsSize = 0
    /\ openFiles = 0 /\ coErr = Nil /\ coRet = Nil
    /\ exitStatus = -1
    /\ \/ \E x \in Items : in = Call("findItem", x, 0, Nil, 0)
       \/ \E a \in 0..MaxBufLen, e \in ReadErrs, b \in 0..MaxBufLen :
             in = Call("readFullBuffer", "", a, e, b)
    /\ out = Result("none", Nil, 0, 0)

CallFindItem ==
    /\ in.fn = "findItem" /\ out.fn = "none"
    /\ LET r == findItem(heap, in.item) IN
       /\ heap' = r.heap
       /\ out' = Result("findItem", r.ret, 0, 0)
    /\ UNCHANGED <<pc, mainVars, stdout, demos, envVars, coVars, exitStatus,
                   in>>

CallReadFullBuffer ==
    /\ in.fn = "readFullBuffer" /\ out.fn = "none"
    /\ LET r == readFullBuffer([avail |-> in.avail, err |-> in.err],
                               in.bufLen)
       IN  out' = Result("readFullBuffer", r.err, r.n, r.reads)
    /\ UNCHANGED <<pc, heap, mainVars, stdout, demos, envVars, coVars,
                   exitStatus, in>>

NextFn == CallFindItem \/ CallReadFullBuffer

SpecFn == InitFn /\ [][NextFn]_vars

\* ------------------------------------------------------------ properties
Ran(d) == d \in Range(demos)
Printed(line) == line \in Range(stdout)
Exited == exitStatus # -1

\* position of e in the traversal from root, 0 when it is not reached
PosInChain(h, root, e) ==
    LET c == Chain(h, root)
        hits == {i \in 1..Len(c) : c[i] = e}
    IN  IF hits = {} THEN 0 ELSE CHOOSE i \in hits : \A j \in hits : i <= j

\* C1: once the process has exited, exactly the demonstrations 1..8 have
\* run, in that order, and the exit status is 0.
C1_EightOutcomesExitZero ==
    Exited => (demos = <<1, 2, 3, 4, 5, 6, 7, 8>> /\ exitStatus = 0)

C3_Demo5Asymmetry ==
    Ran(5) => /\ Is(heap, properlyWrappedErr, inputErr)
              /\ ~Is(heap, wrappedErr, inputErr)

C5_ReadFullBuffer ==
    out.fn = "readFullBuffer" =>
        /\ out.reads = 1
        /\ out.n = Min(in.avail, in.bufLen)
        /\ in.err = EOF => out.ret = Nil
        /\ in.err # EOF => out.ret = in.err

C5_Witness ==
    out.fn = "readFullBuffer" /\ in.err = EOF /\ out.n > 0 /\ out.ret = Nil

\* C6: for every item x, the error findItem(x) returns has the not-found shape
\* under a type assertion and under errors.As, and its payload is x.
C6_FindItemPayload ==
    out.fn = "findItem" =>
        LET a == TypeAssert(heap, out.ret, "*main.NotFoundError")
            t == As(heap, out.ret, "*main.NotFoundError")
        IN  /\ a # Nil /\ heap[a].text = <<in.item>>
            /\ t # Nil /\ heap[t].text = <<in.item>>

C6_Witness == out.fn = "findItem" /\ in.item = "report" /\ out.ret # Nil

\* C7: openDbErr returns the no-rows sentinel itself, allocating no wrapper,
\* so Demo 7 prints its line.
C7_NoRowsBare ==
    /\ openDbErr(heap).ret = ErrNoRows
    /\ openDbErr(heap).heap = heap
    /\ Ran(7) => Printed(<<"No", "rows", "found">>)

C7_Witness == Ran(7) /\ pc = "demo8"

\* C8: a handle is open only between a successful open and the exit of
\* customOperation; once customOperation has been left, by a return or by a
\* panic, no handle is open.
C8_HandleReleased ==
    /\ pc \in {"co_read", "co_check"} => openFiles = 1
    /\ pc \notin {"co_read", "co_check"} => openFiles = 0

C8_Witness == pc = "done" /\ fsKind = "dir" /\ coRet # Nil /\ openFiles = 0

C10_NeverAborts == pc # "crashed" /\ exitStatus # 2

====
